---- MODULE Spec2Model ----
(***************************************************************************)
(* Model of core/execution.py: SimulatedExecutionHandler.                  *)
(*                                                                         *)
(* State: the ledger self.all_orders, the shared event queue self.events   *)
(* and the data feed self.bars (symbol_list, the latest bar of every       *)
(* tracked symbol and its timestamp now).  Operations: execute_order and   *)
(* scan_open_orders; the feed moving to its next bar is a step of the      *)
(* environment.  n_mkt counts the market orders executed and last records  *)
(* the last call; env is the environment the run was started in.           *)
(*                                                                         *)
(* Python's None is the empty sequence NULL; a value v that is set is the  *)
(* one-element sequence <<v>>, so that `x is None` is x = NULL and no      *)
(* number is mistaken for None.                                            *)
(*                                                                         *)
(* Order events are sent for tracked symbols only (the feed is asked for   *)
(* the bar of event.symbol), and symbol_list holds no symbol twice.        *)
(***************************************************************************)
EXTENDS Integers, Sequences, FiniteSets

VARIABLES symbol_list, bars, now, all_orders, events, n_mkt, env, last

vars == <<symbol_list, bars, now, all_orders, events, n_mkt, env, last>>

\* ---------------------------------------------------------------- bounds
\* longest ledger, number of market orders executed, last bar of the feed
MaxOrders == 2
MaxMkt == 2
MaxTime == 1

\* fixed commission argument of every FillEvent, in hundredths (0.01)
Commission == 1

NULL == << >>
Some(v) == <<v>>
Val(x) == x[1]

Symbols == {"A", "B"}
Directions == {"BUY", "SELL"}
Prices == {1, 2, 3}
Quantities == {1, 2}

Tracked == {symbol_list[k] : k \in 1..Len(symbol_list)}

\* a bar of the feed: low <= close <= high
Bars == {b \in [low : Prices, high : Prices, close : Prices] :
            b.low <= b.close /\ b.close <= b.high}

\* ------------------------------------------------------------ order events
\* An OrderEvent as it leaves the strategy layer: identity and trigger prices set,
\* the five lifecycle fields still None.
OrderEvent(sym, ot, dir, q, lp, sp, sl, pt) ==
    [symbol |-> sym, order_type |-> ot, direction |-> dir, quantity |-> q,
     limit_price |-> lp, stop_price |-> sp, stop_loss |-> sl, profit_target |-> pt,
     entry_time |-> NULL, entry_price |-> NULL,
     exit_time |-> NULL, exit_price |-> NULL, profit |-> NULL]

\* Shapes for a ledger of one order.  A market order carries no trigger
\* price; a pending order is well-formed (its own entry trigger set) or
\* malformed (its own entry trigger None, the other one set or not), with any
\* pair of exit triggers below, at or above the middle price.
EntryShapes(ot) ==
    {<<NULL, NULL>>} \cup
    (IF ot = "LMT"
     THEN {<<Some(p), NULL>> : p \in Prices} \cup {<<NULL, Some(2)>>}
     ELSE {<<NULL, Some(p)>> : p \in Prices} \cup {<<Some(2), NULL>>})

ExitPrices == {NULL, Some(1), Some(3)}

WideEvents ==
    {OrderEvent(sym, "MKT", dir, q, NULL, NULL, NULL, NULL) :
        sym \in Symbols, dir \in Directions, q \in Quantities}
    \cup
    UNION {{OrderEvent(sym, ot, dir, q, es[1], es[2], sl, pt) :
                sym \in Symbols, dir \in Directions, q \in Quantities,
                es \in EntryShapes(ot), sl \in ExitPrices, pt \in ExitPrices} :
           ot \in {"LMT", "STP"}}

\* For ledgers of several orders: market orders and well-formed limit orders
\* at the middle price, the limit orders with no exit trigger or with a
\* bracket around that price.
Bracket(dir) ==
    IF dir = "BUY" THEN <<Some(1), Some(3)>> ELSE <<Some(3), Some(1)>>

NarrowEvents ==
    {OrderEvent(sym, "MKT", dir, 1, NULL, NULL, NULL, NULL) :
        sym \in Symbols, dir \in Directions}
    \cup
    {OrderEvent(sym, "LMT", dir, 1, Some(2), NULL,
                IF br THEN Bracket(dir)[1] ELSE NULL,
                IF br THEN Bracket(dir)[2] ELSE NULL) :
        sym \in Symbols, dir \in Directions, br \in BOOLEAN}

\* a falling bar, a bar spanning every price, a rising bar
CoarseBars ==
    {[low |-> 1, high |-> 1, close |-> 1], [low |-> 1, high |-> 3, close |-> 2],
     [low |-> 3, high |-> 3, close |-> 3]}

\* The environment of the handler: the symbols the feed tracks, the bars it
\* delivers, the order events the strategy layer sends and how long the ledger
\* may grow.  One order of any shape against any bar, several narrow orders of
\* one symbol against any bar, or several narrow orders of two symbols against
\* the coarse bars.
Environments ==
    {[symbol_list |-> << >>, wide |-> TRUE, cap |-> 1, coarse |-> FALSE],
     [symbol_list |-> <<"A">>, wide |-> TRUE, cap |-> 1, coarse |-> FALSE],
     [symbol_list |-> <<"A">>, wide |-> FALSE, cap |-> MaxOrders, coarse |-> FALSE],
     [symbol_list |-> <<"A", "B">>, wide |-> FALSE, cap |-> MaxOrders, coarse |-> TRUE]}

FeedBars == IF env.coarse THEN CoarseBars ELSE Bars

\* FillEvent(order, timeindex, price, symbol, exchange, quantity, direction, commission);
\* the order is referenced by its position in the ledger.
FillEvent(i, timeindex, price, sym, q, dir) ==
    [order |-> i, timeindex |-> timeindex, price |-> price, symbol |-> sym,
     exchange |-> "LOCAL", quantity |-> q, direction |-> dir,
     commission |-> Commission]

\* ------------------------------------------------------------ _find_open_order
IsOpenFor(o, sym) ==
    o.symbol = sym /\ o.entry_price # NULL /\ o.exit_price = NULL

\* mutant: the last open order of the symbol is returned, not the first
_find_open_order_Last(orders, sym) ==
    IF \E i \in 1..Len(orders) : IsOpenFor(orders[i], sym)
    THEN CHOOSE i \in 1..Len(orders) :
            /\ IsOpenFor(orders[i], sym)
            /\ \A j \in (i + 1)..Len(orders) : ~IsOpenFor(orders[j], sym)
    ELSE 0

\* mutant: the symbol test is inverted
_find_open_order_OtherSymbol(orders, sym) ==
    IF \E i \in 1..Len(orders) : orders[i].symbol # sym /\ orders[i].entry_price # NULL /\ orders[i].exit_price = NULL
    THEN CHOOSE i \in 1..Len(orders) :
            /\ orders[i].symbol # sym /\ orders[i].entry_price # NULL /\ orders[i].exit_price = NULL
            /\ \A j \in 1..(i - 1) : ~(orders[j].symbol # sym /\ orders[j].entry_price # NULL /\ orders[j].exit_price = NULL)
    ELSE 0

\* mutant: any entered order counts as open, closed or not
_find_open_order_Entered(orders, sym) ==
    IF \E i \in 1..Len(orders) : orders[i].symbol = sym /\ orders[i].entry_price # NULL
    THEN CHOOSE i \in 1..Len(orders) :
            /\ orders[i].symbol = sym /\ orders[i].entry_price # NULL
            /\ \A j \in 1..(i - 1) :
                ~(orders[j].symbol = sym /\ orders[j].entry_price # NULL)
    ELSE 0

\* index of the first open order of the symbol, 0 when there is none
_find_open_order(orders, sym) ==
    IF \E i \in 1..Len(orders) : IsOpenFor(orders[i], sym)
    THEN CHOOSE i \in 1..Len(orders) :
            /\ IsOpenFor(orders[i], sym)
            /\ \A j \in 1..(i - 1) : ~IsOpenFor(orders[j], sym)
    ELSE 0

\* ------------------------------------------------------------ scan_open_orders
\* Each trigger takes and returns [o |-> the order, f |-> the FillEvents the
\* loop body has created for it so far]; i is the order's place in the ledger.

\* mutant: a BUY limit order also enters when the low equals limit_price
LimitBuy_AtLimit(st, i, timeindex, latest_bar) ==
    IF st.o.direction = "BUY" /\ latest_bar.low <= Val(st.o.limit_price)
    THEN LET order == [st.o EXCEPT !.entry_time = Some(timeindex),
                                   !.entry_price = st.o.limit_price]
         IN [o |-> order,
             f |-> Append(st.f, FillEvent(i, timeindex, Val(order.limit_price),
                                          order.symbol, order.quantity,
                                          order.direction))]
    ELSE st

\* lines 81-88
LimitBuy(st, i, timeindex, latest_bar) ==
    IF st.o.direction = "BUY" /\ latest_bar.low < Val(st.o.limit_price)
    THEN LET order == [st.o EXCEPT !.entry_time = Some(timeindex),
                                   !.entry_price = st.o.limit_price]
         IN [o |-> order,
             f |-> Append(st.f, FillEvent(i, timeindex, Val(order.limit_price),
                                          order.symbol, order.quantity,
                                          order.direction))]
    ELSE st

\* mutant: a SELL limit order that enters has its limit_price cleared
LimitSell_Consumed(st, i, timeindex, latest_bar) ==
    IF st.o.direction = "SELL" /\ latest_bar.high > Val(st.o.limit_price)
    THEN LET order == [st.o EXCEPT !.entry_time = Some(timeindex),
                                   !.entry_price = st.o.limit_price,
                                   !.limit_price = NULL]
         IN [o |-> order,
             f |-> Append(st.f, FillEvent(i, timeindex, Val(st.o.limit_price),
                                          order.symbol, order.quantity,
                                          order.direction))]
    ELSE st

\* lines 90-97
LimitSell(st, i, timeindex, latest_bar) ==
    IF st.o.direction = "SELL" /\ latest_bar.high > Val(st.o.limit_price)
    THEN LET order == [st.o EXCEPT !.entry_time = Some(timeindex),
                                   !.entry_price = st.o.limit_price]
         IN [o |-> order,
             f |-> Append(st.f, FillEvent(i, timeindex, Val(order.limit_price),
                                          order.symbol, order.quantity,
                                          order.direction))]
    ELSE st

\* lines 104-114
StopBuy(st, i, timeindex, latest_bar) ==
    IF st.o.direction = "BUY" /\ latest_bar.high > Val(st.o.stop_price)
    THEN LET order == [st.o EXCEPT !.entry_time = Some(timeindex),
                                   !.entry_price = st.o.stop_price]
         IN [o |-> order,
             f |-> Append(st.f, FillEvent(i, timeindex, Val(order.stop_price),
                                          order.symbol, order.quantity,
                                          order.direction))]
    ELSE st

\* mutant: a SELL stop order is triggered by the bar's high, not its low
StopSell_High(st, i, timeindex, latest_bar) ==
    IF st.o.direction = "SELL" /\ latest_bar.high < Val(st.o.stop_price)
    THEN LET order == [st.o EXCEPT !.entry_time = Some(timeindex),
                                   !.entry_price = st.o.stop_price]
         IN [o |-> order,
             f |-> Append(st.f, FillEvent(i, timeindex, Val(order.stop_price),
                                          order.symbol, order.quantity,
                                          order.direction))]
    ELSE st

\* lines 116-126
StopSell(st, i, timeindex, latest_bar) ==
    IF st.o.direction = "SELL" /\ latest_bar.low < Val(st.o.stop_price)
    THEN LET order == [st.o EXCEPT !.entry_time = Some(timeindex),
                                   !.entry_price = st.o.stop_price]
         IN [o |-> order,
             f |-> Append(st.f, FillEvent(i, timeindex, Val(order.stop_price),
                                          order.symbol, order.quantity,
                                          order.direction))]
    ELSE st

\* lines 131-139
StopLossBuy(st, i, timeindex, latest_bar) ==
    IF st.o.direction = "BUY" /\ latest_bar.low <= Val(st.o.stop_loss)
    THEN LET exit_price == Val(st.o.stop_loss)
             order == [st.o EXCEPT
                         !.exit_time = Some(timeindex),
                         !.exit_price = Some(exit_price),
                         !.profit = Some((exit_price - Val(st.o.entry_price))
                                         * st.o.quantity)]
         IN [o |-> order,
             f |-> Append(st.f, FillEvent(i, timeindex, exit_price, order.symbol,
                                          order.quantity, "SELL"))]
    ELSE st

\* lines 141-149
StopLossSell(st, i, timeindex, latest_bar) ==
    IF st.o.direction = "SELL" /\ latest_bar.high >= Val(st.o.stop_loss)
    THEN LET exit_price == Val(st.o.stop_loss)
             order == [st.o EXCEPT
                         !.exit_time = Some(timeindex),
                         !.exit_price = Some(exit_price),
                         !.profit = Some((exit_price - Val(st.o.entry_price))
                                         * st.o.quantity)]
         IN [o |-> order,
             f |-> Append(st.f, FillEvent(i, timeindex, exit_price, order.symbol,
                                          order.quantity, "BUY"))]
    ELSE st

\* mutant: a BUY order takes profit only when the high is above profit_target
ProfitTargetBuy_Above(st, i, timeindex, latest_bar) ==
    IF st.o.direction = "BUY" /\ latest_bar.high > Val(st.o.profit_target)
    THEN LET order == [st.o EXCEPT
                         !.exit_time = Some(timeindex),
                         !.exit_price = st.o.profit_target,
                         !.profit = Some((Val(st.o.profit_target)
                                          - Val(st.o.entry_price)) * st.o.quantity)]
         IN [o |-> order,
             f |-> Append(st.f, FillEvent(i, timeindex, Val(order.exit_price),
                                          order.symbol, order.quantity, "SELL"))]
    ELSE st

\* lines 152-160
ProfitTargetBuy(st, i, timeindex, latest_bar) ==
    IF st.o.direction = "BUY" /\ latest_bar.high >= Val(st.o.profit_target)
    THEN LET order == [st.o EXCEPT
                         !.exit_time = Some(timeindex),
                         !.exit_price = st.o.profit_target,
                         !.profit = Some((Val(st.o.profit_target)
                                          - Val(st.o.entry_price)) * st.o.quantity)]
         IN [o |-> order,
             f |-> Append(st.f, FillEvent(i, timeindex, Val(order.exit_price),
                                          order.symbol, order.quantity, "SELL"))]
    ELSE st

\* lines 162-170
ProfitTargetSell(st, i, timeindex, latest_bar) ==
    IF st.o.direction = "SELL" /\ latest_bar.low <= Val(st.o.profit_target)
    THEN LET order == [st.o EXCEPT
                         !.exit_time = Some(timeindex),
                         !.exit_price = st.o.profit_target,
                         !.profit = Some((Val(st.o.profit_target)
                                          - Val(st.o.entry_price)) * st.o.quantity)]
         IN [o |-> order,
             f |-> Append(st.f, FillEvent(i, timeindex, Val(order.exit_price),
                                          order.symbol, order.quantity, "BUY"))]
    ELSE st

\* lines 130-149: the two stop-loss checks, when stop_loss is set
StopLoss(st, i, timeindex, latest_bar) ==
    IF st.o.stop_loss # NULL
    THEN StopLossSell(StopLossBuy(st, i, timeindex, latest_bar),
                      i, timeindex, latest_bar)
    ELSE st

\* lines 151-170: the two profit-target checks, when profit_target is set
ProfitTarget(st, i, timeindex, latest_bar) ==
    IF st.o.profit_target # NULL
    THEN ProfitTargetSell(ProfitTargetBuy(st, i, timeindex, latest_bar),
                          i, timeindex, latest_bar)
    ELSE st

\* mutant: the entry branch asks whether exit_price, not entry_price, is None
ScanOrder_Reenter(order, i, timeindex, latest_bar) ==
    LET st == [o |-> order, f |-> << >>]
    IN IF order.exit_price = NULL
       THEN IF order.order_type = "LMT" /\ order.limit_price # NULL
            THEN LimitSell(LimitBuy(st, i, timeindex, latest_bar),
                           i, timeindex, latest_bar)
            ELSE IF order.order_type = "STP" /\ order.stop_price # NULL
                 THEN StopSell(StopBuy(st, i, timeindex, latest_bar),
                               i, timeindex, latest_bar)
                 ELSE st
       ELSE st

\* mutant: the stop branch asks for stop_price only, not for the order type
ScanOrder_AnyStop(order, i, timeindex, latest_bar) ==
    LET st == [o |-> order, f |-> << >>]
    IN IF order.entry_price = NULL
       THEN IF order.order_type = "LMT" /\ order.limit_price # NULL
            THEN LimitSell(LimitBuy(st, i, timeindex, latest_bar),
                           i, timeindex, latest_bar)
            ELSE IF order.stop_price # NULL
                 THEN StopSell(StopBuy(st, i, timeindex, latest_bar),
                               i, timeindex, latest_bar)
                 ELSE st
       ELSE IF order.entry_price # NULL /\ order.exit_price = NULL
            THEN ProfitTarget(StopLoss(st, i, timeindex, latest_bar),
                              i, timeindex, latest_bar)
            ELSE st

\* mutant: the exit branch does not ask whether exit_price is still None
ScanOrder_Reexit(order, i, timeindex, latest_bar) ==
    LET st == [o |-> order, f |-> << >>]
    IN IF order.entry_price = NULL
       THEN IF order.order_type = "LMT" /\ order.limit_price # NULL
            THEN LimitSell(LimitBuy(st, i, timeindex, latest_bar),
                           i, timeindex, latest_bar)
            ELSE IF order.order_type = "STP" /\ order.stop_price # NULL
                 THEN StopSell(StopBuy(st, i, timeindex, latest_bar),
                               i, timeindex, latest_bar)
                 ELSE st
       ELSE ProfitTarget(StopLoss(st, i, timeindex, latest_bar),
                         i, timeindex, latest_bar)

\* mutant: the exit branch is an `if`, not an `elif`: an order entered in this
\* pass is checked for exit in the same pass
ScanOrder_Fallthrough(order, i, timeindex, latest_bar) ==
    LET st == [o |-> order, f |-> << >>]
        s1 == IF order.entry_price = NULL
              THEN IF order.order_type = "LMT" /\ order.limit_price # NULL
                   THEN LimitSell(LimitBuy(st, i, timeindex, latest_bar),
                                  i, timeindex, latest_bar)
                   ELSE IF order.order_type = "STP" /\ order.stop_price # NULL
                        THEN StopSell(StopBuy(st, i, timeindex, latest_bar),
                                      i, timeindex, latest_bar)
                        ELSE st
              ELSE st
    IN IF s1.o.entry_price # NULL /\ s1.o.exit_price = NULL
       THEN ProfitTarget(StopLoss(s1, i, timeindex, latest_bar),
                         i, timeindex, latest_bar)
       ELSE s1

\* the body of the inner loop for one order of the symbol being scanned
ScanOrder(order, i, timeindex, latest_bar) ==
    LET st == [o |-> order, f |-> << >>]
    IN IF order.entry_price = NULL
       THEN IF order.order_type = "LMT" /\ order.limit_price # NULL
            THEN LimitSell(LimitBuy(st, i, timeindex, latest_bar),
                           i, timeindex, latest_bar)
            ELSE IF order.order_type = "STP" /\ order.stop_price # NULL
                 THEN StopSell(StopBuy(st, i, timeindex, latest_bar),
                               i, timeindex, latest_bar)
                 ELSE st
       ELSE IF order.entry_price # NULL /\ order.exit_price = NULL
            THEN ProfitTarget(StopLoss(st, i, timeindex, latest_bar),
                              i, timeindex, latest_bar)
            ELSE st

\* the inner loop over the ledger for one symbol, from position i on:
\* [orders |-> ledger, f |-> fill_events]
RECURSIVE ScanSymbol(_, _, _, _, _)
ScanSymbol(acc, i, sym, t, bar) ==
    IF i > Len(acc.orders) THEN acc
    ELSE IF acc.orders[i].symbol # sym
         THEN ScanSymbol(acc, i + 1, sym, t, bar)
         ELSE LET r == ScanOrder(acc.orders[i], i, t, bar)
              IN ScanSymbol([orders |-> [acc.orders EXCEPT ![i] = r.o],
                             f |-> acc.f \o r.f], i + 1, sym, t, bar)

\* the outer loop over symbol_list from position k on:
\* [orders, gen (every fill created so far), fill_events (the local variable),
\*  bound (whether the local variable fill_events has been assigned)]
RECURSIVE ScanAll(_, _, _, _)
ScanAll(acc, k, syms, feed) ==
    IF k > Len(syms) THEN acc
    ELSE LET sym == syms[k]
             timeindex == feed.datetime
             latest_bar == feed.bar[sym]
             r == ScanSymbol([orders |-> acc.orders, f |-> << >>], 1, sym,
                             timeindex, latest_bar)
         IN ScanAll([orders |-> r.orders, gen |-> acc.gen \o r.f,
                     fill_events |-> r.f, bound |-> TRUE], k + 1, syms, feed)

ScanResult(orders, syms, feed) ==
    ScanAll([orders |-> orders, gen |-> << >>, fill_events |-> << >>,
             bound |-> FALSE], 1, syms, feed)

\* ------------------------------------------------------------ initial state
NoEvent == [symbol |-> "-"]

\* last: the last call, with the ledger and the queue it started from (pre,
\* pre_events), every FillEvent it created (gen), what it returned (ret) and
\* whether it raised.
Called(op, event, gen, ret, raised) ==
    [op |-> op, event |-> event, pre |-> all_orders, pre_events |-> events,
     gen |-> gen, ret |-> ret, raised |-> raised]

Init ==
    /\ env \in Environments
    /\ symbol_list = env.symbol_list
    /\ bars \in [Tracked -> FeedBars]
    /\ now = 0
    /\ all_orders = << >>
    /\ events = << >>
    /\ n_mkt = 0
    /\ last = Called("init", NoEvent, << >>, << >>, FALSE)

\* ------------------------------------------------------------ actions
\* the data feed moves every tracked symbol to its next bar
UpdateBars ==
    /\ symbol_list # << >>
    /\ now < MaxTime
    /\ now' = now + 1
    /\ bars' \in [Tracked -> FeedBars]
    /\ last' = Called("bars", NoEvent, << >>, << >>, FALSE)
    /\ UNCHANGED <<symbol_list, all_orders, events, n_mkt, env>>

scan_open_orders ==
    LET r == ScanResult(all_orders, symbol_list, [datetime |-> now, bar |-> bars])
    IN /\ all_orders' = r.orders
       /\ last' = Called("scan", NoEvent, r.gen,
                         IF r.bound THEN r.fill_events ELSE << >>, ~r.bound)
       /\ UNCHANGED <<symbol_list, bars, now, events, n_mkt, env>>

\* lines 189-191: the event becomes the order, entered at the bar's close
MarketEntry(event, timeindex, price) ==
    [event EXCEPT !.entry_time = Some(timeindex), !.entry_price = Some(price)]

\* mutant: the profit of a SELL order is counted with the opposite sign
MarketClose_Signed(order, timeindex, price) ==
    [order EXCEPT !.exit_time = Some(timeindex),
                  !.exit_price = Some(price),
                  !.profit = IF order.direction = "SELL"
                             THEN Some((Val(order.entry_price) - price) * order.quantity)
                             ELSE Some((price - Val(order.entry_price)) * order.quantity)]

\* lines 195-197: the open order found is closed at the bar's close
MarketClose(order, timeindex, price) ==
    [order EXCEPT !.exit_time = Some(timeindex),
                  !.exit_price = Some(price),
                  !.profit = Some((price - Val(order.entry_price)) * order.quantity)]

\* execute_order, event.order_type == 'MKT'
execute_market(event) ==
    /\ event.order_type = "MKT"
    /\ LET timeindex == now
           price == bars[event.symbol].close
           found == _find_open_order(all_orders, event.symbol)
           i == IF found = 0 THEN Len(all_orders) + 1 ELSE found
           fill_event == FillEvent(i, timeindex, price, event.symbol,
                                   event.quantity, event.direction)
       IN /\ found = 0 => Len(all_orders) < env.cap
          /\ all_orders' =
                IF found = 0
                THEN Append(all_orders, MarketEntry(event, timeindex, price))
                ELSE [all_orders EXCEPT
                        ![found] = MarketClose(all_orders[found], timeindex, price)]
          /\ events' = Append(events, fill_event)
          /\ n_mkt' = n_mkt + 1
          /\ last' = Called("execute", event, <<fill_event>>, << >>, FALSE)
    /\ UNCHANGED <<symbol_list, bars, now, env>>

\* mutant: a limit or stop order is filled on submission
execute_pending_Filled(event) ==
    /\ event.order_type \in {"LMT", "STP"}
    /\ all_orders' = Append(all_orders, event)
    /\ events' = Append(events, FillEvent(Len(all_orders) + 1, now,
                                          bars[event.symbol].close, event.symbol,
                                          event.quantity, event.direction))
    /\ last' = Called("execute", event, << >>, << >>, FALSE)
    /\ UNCHANGED <<symbol_list, bars, now, n_mkt, env>>

\* mutant: a limit or stop order is put at the head of the ledger
execute_pending_Head(event) ==
    /\ event.order_type \in {"LMT", "STP"}
    /\ Len(all_orders) < env.cap
    /\ all_orders' = <<event>> \o all_orders
    /\ last' = Called("execute", event, << >>, << >>, FALSE)
    /\ UNCHANGED <<symbol_list, bars, now, events, n_mkt, env>>

\* execute_order, event.order_type == 'LMT' or 'STP'
execute_pending(event) ==
    /\ event.order_type \in {"LMT", "STP"}
    /\ Len(all_orders) < env.cap
    /\ all_orders' = Append(all_orders, event)
    /\ last' = Called("execute", event, << >>, << >>, FALSE)
    /\ UNCHANGED <<symbol_list, bars, now, events, n_mkt, env>>

execute_order ==
    \/ /\ n_mkt < MaxMkt
       /\ \E event \in (IF env.wide THEN WideEvents ELSE NarrowEvents) :
            event.symbol \in Tracked /\ execute_market(event)
    \/ /\ Len(all_orders) < env.cap
       /\ \E event \in (IF env.wide THEN WideEvents ELSE NarrowEvents) :
            event.symbol \in Tracked /\ execute_pending(event)

Next == UpdateBars \/ scan_open_orders \/ execute_order

Spec == Init /\ [][Next]_vars

\* ================================================================ properties
\* What the properties say of one call is read off `last`: the ledger and the
\* queue before the call against all_orders and events after it.  A call
\* leaves bars and now alone, so they are the bar and the timestamp it read.

Scanned == last.op = "scan" /\ ~last.raised
Executed(ot) == last.op = "execute" /\ last.event.order_type \in ot

Pending(o) == o.entry_price = NULL
Open(o) == o.entry_price # NULL /\ o.exit_price = NULL
Closed(o) == o.exit_price # NULL

Opposite(dir) == IF dir = "BUY" THEN "SELL" ELSE "BUY"

\* the positions in a sequence of FillEvents of those that reference order i
FillsOf(f, i) == {k \in 1..Len(f) : f[k].order = i}

\* the bar satisfies the order's stop_loss / profit_target condition
StopLossHit(o) ==
    /\ o.stop_loss # NULL
    /\ \/ o.direction = "BUY" /\ bars[o.symbol].low <= Val(o.stop_loss)
       \/ o.direction = "SELL" /\ bars[o.symbol].high >= Val(o.stop_loss)

ProfitTargetHit(o) ==
    /\ o.profit_target # NULL
    /\ \/ o.direction = "BUY" /\ bars[o.symbol].high >= Val(o.profit_target)
       \/ o.direction = "SELL" /\ bars[o.symbol].low <= Val(o.profit_target)

\* the open orders of a symbol in a ledger, and the first of them
OpenOrders(orders, sym) ==
    {i \in 1..Len(orders) : orders[i].symbol = sym /\ Open(orders[i])}

FirstOpen(orders, sym) ==
    CHOOSE i \in OpenOrders(orders, sym) : \A j \in OpenOrders(orders, sym) : i <= j

\* ---------------------------------------------------------------- C1
\* C1: in one scan, an open order whose bar satisfies its stop_loss and its
\* profit_target condition at once exits on the stop_loss alone: exit_price =
\* stop_loss, profit = (stop_loss - entry_price) * quantity, and exactly one
\* exit Fill for the order is created.
C1_StopLossWins ==
    Scanned =>
        \A i \in 1..Len(last.pre) :
            LET o == last.pre[i]
                n == all_orders[i]
            IN (Open(o) /\ StopLossHit(o) /\ ProfitTargetHit(o)) =>
                  /\ n.exit_price = o.stop_loss
                  /\ n.profit = Some((Val(o.stop_loss) - Val(o.entry_price))
                                     * o.quantity)
                  /\ Cardinality(FillsOf(last.gen, i)) = 1

\* ---------------------------------------------------------------- C2
\* C2: the batch scan_open_orders returns holds every Fill created during the
\* call, whatever the symbol of its order.
C2_BatchHasEveryFill ==
    Scanned =>
        \A k \in 1..Len(last.gen) :
            \E j \in 1..Len(last.ret) : last.ret[j] = last.gen[k]

\* ---------------------------------------------------------------- C3
\* what a market order on a symbol with an open order does to the ledger and
\* the queue, the direction of its Fill left aside
MarketCloseEffect(i) ==
    LET o == last.pre[i]
        n == all_orders[i]
        close == bars[last.event.symbol].close
    IN /\ n = [o EXCEPT !.exit_time = Some(now), !.exit_price = Some(close),
                        !.profit = Some((close - Val(o.entry_price)) * o.quantity)]
       /\ Len(all_orders) = Len(last.pre)
       /\ Len(events) = Len(last.pre_events) + 1
       /\ \A k \in 1..Len(last.pre_events) : events[k] = last.pre_events[k]
       /\ events[Len(events)].order = i
       /\ events[Len(events)].price = close
       /\ events[Len(events)].timeindex = now

ClosingCall ==
    Executed({"MKT"}) /\ OpenOrders(last.pre, last.event.symbol) # {}

\* C3 as stated: a market order on a symbol with an open order closes that
\* order at the bar's timestamp and close, leaves the ledger's length alone
\* and emits exactly one Fill, which carries the closed order's direction.
C3_FillHasOrderDirection ==
    ClosingCall =>
        LET i == FirstOpen(last.pre, last.event.symbol)
        IN /\ MarketCloseEffect(i)
           /\ events[Len(events)].direction = last.pre[i].direction

\* C3 amended: as above, but the one Fill carries the direction and the
\* quantity of the market order event, not those of the order it closes.
C3_FillHasEventDirection ==
    ClosingCall =>
        LET i == FirstOpen(last.pre, last.event.symbol)
        IN /\ MarketCloseEffect(i)
           /\ events[Len(events)].direction = last.event.direction
           /\ events[Len(events)].quantity = last.event.quantity

\* a BUY order of quantity 2 closed at a loss by a SELL market order of quantity 1
C3_Witness ==
    /\ ClosingCall
    /\ LET i == FirstOpen(last.pre, last.event.symbol)
       IN /\ last.pre[i].direction = "BUY" /\ last.event.direction = "SELL"
          /\ last.pre[i].quantity = 2 /\ last.event.quantity = 1
          /\ Val(all_orders[i].profit) < 0

\* ---------------------------------------------------------------- C4
\* C4: a market order on a symbol with no open order appends exactly one
\* order, entered at the bar's timestamp and close with its exit fields None,
\* and puts exactly one Fill with that price on the queue, whatever pending or
\* closed orders of the symbol the ledger holds.
C4_MarketFreshEntry ==
    (Executed({"MKT"}) /\ OpenOrders(last.pre, last.event.symbol) = {}) =>
        LET close == bars[last.event.symbol].close
            n == all_orders[Len(all_orders)]
        IN /\ Len(all_orders) = Len(last.pre) + 1
           /\ \A i \in 1..Len(last.pre) : all_orders[i] = last.pre[i]
           /\ n = [last.event EXCEPT !.entry_time = Some(now),
                                     !.entry_price = Some(close)]
           /\ n.exit_time = NULL /\ n.exit_price = NULL /\ n.profit = NULL
           /\ Len(events) = Len(last.pre_events) + 1
           /\ \A k \in 1..Len(last.pre_events) : events[k] = last.pre_events[k]
           /\ events[Len(events)].price = close
           /\ events[Len(events)].order = Len(all_orders)

\* a fresh entry on a symbol whose earlier order is closed
C4_Witness ==
    /\ Executed({"MKT"}) /\ OpenOrders(last.pre, last.event.symbol) = {}
    /\ Len(all_orders) = Len(last.pre) + 1
    /\ \E i \in 1..Len(last.pre) :
        last.pre[i].symbol = last.event.symbol /\ Closed(last.pre[i])

\* ---------------------------------------------------------------- C5
\* C5: a call that starts with an order closed leaves the order's entry_price,
\* entry_time, exit_price, exit_time and profit as they were and creates no
\* Fill that references it.
C5_ClosedIsFinal ==
    last.op \in {"scan", "execute"} =>
        \A i \in 1..Len(last.pre) :
            LET o == last.pre[i]
                n == all_orders[i]
            IN Closed(o) =>
                  /\ n.entry_price = o.entry_price /\ n.entry_time = o.entry_time
                  /\ n.exit_price = o.exit_price /\ n.exit_time = o.exit_time
                  /\ n.profit = o.profit
                  /\ FillsOf(last.gen, i) = {}

\* a scan over a closed order whose bar satisfies its profit_target condition
\* at a price other than the one it exited at
C5_Witness ==
    /\ Scanned
    /\ \E i \in 1..Len(last.pre) :
        /\ Closed(last.pre[i]) /\ ProfitTargetHit(last.pre[i])
        /\ last.pre[i].exit_price # last.pre[i].profit_target

\* ---------------------------------------------------------------- C6
\* C6: the queue holds as many Fills as market orders were executed: a market
\* order puts exactly one, a limit or stop order puts none and is appended
\* with entry_price None, and a scan puts none.
C6_QueueCountsMarketOrders ==
    /\ Len(events) = n_mkt
    /\ Executed({"MKT"}) =>
          /\ Len(events) = Len(last.pre_events) + 1
          /\ \A k \in 1..Len(last.pre_events) : events[k] = last.pre_events[k]
    /\ Executed({"LMT", "STP"}) =>
          /\ events = last.pre_events
          /\ all_orders = Append(last.pre, last.event)
          /\ all_orders[Len(all_orders)].entry_price = NULL
    /\ last.op = "scan" => events = last.pre_events

\* a scan that created Fills after both market orders were executed
C6_Witness ==
    /\ last.op = "scan" /\ last.gen # << >>
    /\ n_mkt = MaxMkt
    /\ \E i \in 1..Len(all_orders) : all_orders[i].order_type # "MKT"

\* ---------------------------------------------------------------- C7
LifeState(o) ==
    IF /\ o.entry_price = NULL /\ o.entry_time = NULL /\ o.exit_price = NULL
       /\ o.exit_time = NULL /\ o.profit = NULL
    THEN "pending"
    ELSE IF /\ o.entry_price # NULL /\ o.entry_time # NULL /\ o.exit_price = NULL
            /\ o.exit_time = NULL /\ o.profit = NULL
         THEN "open"
         ELSE IF /\ o.entry_price # NULL /\ o.entry_time # NULL
                 /\ o.exit_price # NULL /\ o.exit_time # NULL /\ o.profit # NULL
              THEN "closed"
              ELSE "none"

\* C7: every ledger order is pending (the five lifecycle fields None), open
\* (entry fields set, exit fields and profit None) or closed (all five set),
\* and a call moves an order only from pending to open or from open to closed.
C7_Lifecycle ==
    /\ \A i \in 1..Len(all_orders) :
          LifeState(all_orders[i]) \in {"pending", "open", "closed"}
    /\ \A i \in 1..Len(last.pre) :
          \/ LifeState(all_orders[i]) = LifeState(last.pre[i])
          \/ LifeState(last.pre[i]) = "pending" /\ LifeState(all_orders[i]) = "open"
          \/ LifeState(last.pre[i]) = "open" /\ LifeState(all_orders[i]) = "closed"

\* a scan whose bar satisfies the entry trigger and the stop_loss of a pending
\* order, and which leaves it open
C7_Witness ==
    /\ Scanned
    /\ \E i \in 1..Len(last.pre) :
        /\ LifeState(last.pre[i]) = "pending" /\ LifeState(all_orders[i]) = "open"
        /\ StopLossHit(last.pre[i])

\* ---------------------------------------------------------------- C8
LimitHit(o) ==
    \/ o.direction = "BUY" /\ bars[o.symbol].low < Val(o.limit_price)
    \/ o.direction = "SELL" /\ bars[o.symbol].high > Val(o.limit_price)

\* the entry of order i at the price given, with its one Fill
EnteredAt(i, price) ==
    LET o == last.pre[i]
    IN /\ all_orders[i] = [o EXCEPT !.entry_time = Some(now), !.entry_price = price]
       /\ Cardinality(FillsOf(last.gen, i)) = 1
       /\ \A k \in FillsOf(last.gen, i) :
            /\ last.gen[k].price = Val(price)
            /\ last.gen[k].timeindex = now
            /\ last.gen[k].quantity = o.quantity
            /\ last.gen[k].direction = o.direction
            /\ last.gen[k].symbol = o.symbol

Untouched(i) ==
    all_orders[i] = last.pre[i] /\ FillsOf(last.gen, i) = {}

\* C8: a scan enters a pending LMT order with limit_price set exactly when it
\* is a BUY and the bar's low is below limit_price or a SELL and the bar's high
\* is above it (strictly); it enters it at the bar's timestamp and limit_price
\* with one Fill of that price and the order's quantity and direction, and
\* otherwise leaves it unchanged.
C8_LimitEntry ==
    Scanned =>
        \A i \in 1..Len(last.pre) :
            LET o == last.pre[i]
            IN (Pending(o) /\ o.order_type = "LMT" /\ o.limit_price # NULL) =>
                  IF LimitHit(o) THEN EnteredAt(i, o.limit_price) ELSE Untouched(i)

\* a SELL limit order entered by a bar whose high is above limit_price and
\* whose low equals it
C8_Witness ==
    /\ Scanned
    /\ \E i \in 1..Len(last.pre) :
        /\ Pending(last.pre[i]) /\ last.pre[i].order_type = "LMT"
        /\ last.pre[i].direction = "SELL"
        /\ last.pre[i].limit_price = Some(bars[last.pre[i].symbol].low)
        /\ Open(all_orders[i])

\* ---------------------------------------------------------------- C9
StopHit(o) ==
    \/ o.direction = "BUY" /\ bars[o.symbol].high > Val(o.stop_price)
    \/ o.direction = "SELL" /\ bars[o.symbol].low < Val(o.stop_price)

\* C9: a scan enters a pending STP order with stop_price set exactly when it
\* is a BUY and the bar's high is above stop_price or a SELL and the bar's low
\* is below it; it enters it at the bar's timestamp and stop_price with one
\* Fill of that price and the order's direction, and otherwise leaves it
\* unchanged.
C9_StopEntry ==
    Scanned =>
        \A i \in 1..Len(last.pre) :
            LET o == last.pre[i]
            IN (Pending(o) /\ o.order_type = "STP" /\ o.stop_price # NULL) =>
                  IF StopHit(o) THEN EnteredAt(i, o.stop_price) ELSE Untouched(i)

\* a SELL stop order entered by a bar whose low is below stop_price and whose
\* high is not above it
C9_Witness ==
    /\ Scanned
    /\ \E i \in 1..Len(last.pre) :
        /\ Pending(last.pre[i]) /\ last.pre[i].order_type = "STP"
        /\ last.pre[i].direction = "SELL" /\ last.pre[i].stop_price # NULL
        /\ bars[last.pre[i].symbol].high <= Val(last.pre[i].stop_price)
        /\ Open(all_orders[i])

\* ---------------------------------------------------------------- C10
\* C10: a scan exits an open order with stop_loss set on the stop-loss exactly
\* when it is a BUY and the bar's low is at or below stop_loss or a SELL and the
\* bar's high is at or above it; after the exit exit_time is the bar's
\* timestamp, exit_price = stop_loss, profit = (exit_price - entry_price) *
\* quantity, and the Fill carries the direction opposite to the order's.
C10_StopLossExit ==
    Scanned =>
        \A i \in 1..Len(last.pre) :
            LET o == last.pre[i]
                n == all_orders[i]
            IN (Open(o) /\ o.stop_loss # NULL) =>
                  IF StopLossHit(o)
                  THEN /\ n.exit_time = Some(now)
                       /\ n.exit_price = o.stop_loss
                       /\ n.profit = Some((Val(n.exit_price) - Val(o.entry_price))
                                          * o.quantity)
                       /\ \E k \in FillsOf(last.gen, i) :
                            /\ last.gen[k].price = Val(o.stop_loss)
                            /\ last.gen[k].direction = Opposite(o.direction)
                  ELSE \/ Untouched(i)
                       \/ ProfitTargetHit(o) /\ n.exit_price = o.profit_target

\* ---------------------------------------------------------------- C11
\* the exit of order i at the price given, with its one Fill of the opposite
\* direction
ExitedAt(i, price) ==
    LET o == last.pre[i]
    IN /\ all_orders[i] =
            [o EXCEPT !.exit_time = Some(now), !.exit_price = price,
                      !.profit = Some((Val(price) - Val(o.entry_price)) * o.quantity)]
       /\ Cardinality(FillsOf(last.gen, i)) = 1
       /\ \A k \in FillsOf(last.gen, i) :
            /\ last.gen[k].price = Val(price)
            /\ last.gen[k].timeindex = now
            /\ last.gen[k].quantity = o.quantity
            /\ last.gen[k].direction = Opposite(o.direction)

\* C11: a scan exits an open order with profit_target set, whose stop_loss
\* does not fire in the scan, on the profit target exactly when it is a BUY and
\* the bar's high is at or above profit_target or a SELL and the bar's low is
\* at or below it; it exits it at the bar's timestamp and profit_target with
\* profit = (profit_target - entry_price) * quantity and a Fill of the opposite
\* direction, and otherwise leaves it unchanged.
C11_ProfitTargetExit ==
    Scanned =>
        \A i \in 1..Len(last.pre) :
            LET o == last.pre[i]
            IN (Open(o) /\ o.profit_target # NULL /\ ~StopLossHit(o)) =>
                  IF ProfitTargetHit(o) THEN ExitedAt(i, o.profit_target)
                  ELSE Untouched(i)

\* a SELL order of quantity 2 with stop_loss set and not hit, exited by a bar
\* whose low equals profit_target
C11_Witness ==
    /\ Scanned
    /\ \E i \in 1..Len(last.pre) :
        LET o == last.pre[i]
        IN /\ Open(o) /\ o.direction = "SELL" /\ o.quantity = 2
           /\ o.stop_loss # NULL /\ ~StopLossHit(o)
           /\ o.profit_target = Some(bars[o.symbol].low)
           /\ Closed(all_orders[i])

\* ---------------------------------------------------------------- C12
\* the bar satisfies the entry trigger of a pending order
EntryHit(o) ==
    \/ o.order_type = "LMT" /\ o.limit_price # NULL /\ LimitHit(o)
    \/ o.order_type = "STP" /\ o.stop_price # NULL /\ StopHit(o)

\* C12: an order pending at the start of a scan is only checked for entry: at
\* the return it has no exit_price, exit_time or profit, also when it was
\* entered by a bar that satisfies its stop_loss or profit_target condition,
\* and at most one Fill was created for it.
C12_EntryOnly ==
    Scanned =>
        \A i \in 1..Len(last.pre) :
            Pending(last.pre[i]) =>
                /\ all_orders[i].exit_price = NULL
                /\ all_orders[i].exit_time = NULL
                /\ all_orders[i].profit = NULL
                /\ Cardinality(FillsOf(last.gen, i)) <= 1
                /\ EntryHit(last.pre[i]) => Open(all_orders[i])

\* a pending order entered by a bar that satisfies both its stop_loss and its
\* profit_target condition
C12_Witness ==
    /\ Scanned
    /\ \E i \in 1..Len(last.pre) :
        /\ Pending(last.pre[i]) /\ EntryHit(last.pre[i])
        /\ StopLossHit(last.pre[i]) /\ ProfitTargetHit(last.pre[i])
        /\ Open(all_orders[i])

\* ---------------------------------------------------------------- C13
\* what an order is submitted with and no operation is to change: its identity
\* and its trigger prices
Submitted(o) ==
    <<o.symbol, o.direction, o.quantity, o.order_type,
      o.limit_price, o.stop_price, o.stop_loss, o.profit_target>>

\* the ledger before the call is, order by order, the head of the ledger
\* after it
IsPrefix(pre, post) ==
    /\ Len(pre) <= Len(post)
    /\ \A i \in 1..Len(pre) :
        /\ post[i].symbol = pre[i].symbol
        /\ post[i].order_type = pre[i].order_type
        /\ post[i].direction = pre[i].direction
        /\ post[i].quantity = pre[i].quantity
        /\ pre[i].entry_price # NULL =>
              post[i].entry_price = pre[i].entry_price /\ post[i].entry_time = pre[i].entry_time

\* C13: the ledger is append-only: every operation leaves the orders it held
\* in their places; a scan and a closing market order leave its length alone,
\* a limit or stop submission and a fresh market entry add one order at its end.
C13_AppendOnly ==
    /\ IsPrefix(last.pre, all_orders)
    /\ last.op = "scan" => Len(all_orders) = Len(last.pre)
    /\ Executed({"LMT", "STP"}) =>
          /\ Len(all_orders) = Len(last.pre) + 1
          /\ Submitted(all_orders[Len(all_orders)]) = Submitted(last.event)
    /\ (Executed({"MKT"}) /\ OpenOrders(last.pre, last.event.symbol) = {}) =>
          /\ Len(all_orders) = Len(last.pre) + 1
          /\ Submitted(all_orders[Len(all_orders)]) = Submitted(last.event)
    /\ (Executed({"MKT"}) /\ OpenOrders(last.pre, last.event.symbol) # {}) =>
          Len(all_orders) = Len(last.pre)

\* a limit order appended behind an open order of another direction
C13_Witness ==
    /\ Executed({"LMT", "STP"})
    /\ Len(last.pre) >= 1 /\ Len(all_orders) = Len(last.pre) + 1
    /\ Open(last.pre[1])
    /\ last.pre[1].direction # last.event.direction

\* ---------------------------------------------------------------- C14
\* C14: no operation changes the symbol, direction, quantity, order_type,
\* limit_price, stop_price, stop_loss or profit_target of a ledger order.
C14_SubmittedFieldsKept ==
    last.op \in {"scan", "execute"} =>
        \A i \in 1..Len(last.pre) :
            Submitted(all_orders[i]) = Submitted(last.pre[i])

\* a scan that entered one order and exited another, each with all its
\* trigger prices of its shape set
C14_Witness ==
    /\ Scanned
    /\ \E i, j \in 1..Len(last.pre) :
        /\ Pending(last.pre[i]) /\ Open(all_orders[i])
        /\ Open(last.pre[j]) /\ Closed(all_orders[j])
        /\ last.pre[j].stop_loss # NULL /\ last.pre[j].profit_target # NULL

\* ---------------------------------------------------------------- C15
\* an LMT order without limit_price, an STP order without stop_price
Malformed(o) ==
    \/ o.order_type = "LMT" /\ o.limit_price = NULL
    \/ o.order_type = "STP" /\ o.stop_price = NULL

\* C15: a malformed pending order is a silent no-op: in every reachable state
\* it is pending, every scan leaves it unchanged and creates no Fill for it,
\* whatever the bar and whether its other entry trigger is set, and the scan
\* of a feed with a tracked symbol raises nothing.
C15_MalformedIsNoOp ==
    /\ \A i \in 1..Len(all_orders) :
          Malformed(all_orders[i]) => LifeState(all_orders[i]) = "pending"
    /\ last.op = "scan" =>
          /\ symbol_list # << >> => ~last.raised
          /\ \A i \in 1..Len(last.pre) :
                Malformed(last.pre[i]) => Untouched(i)

\* a scan over a BUY limit order without limit_price whose stop_price is below
\* the bar's high and above the bar's low
C15_Witness ==
    /\ Scanned
    /\ \E i \in 1..Len(last.pre) :
        LET o == last.pre[i]
        IN /\ o.order_type = "LMT" /\ o.limit_price = NULL /\ o.stop_price # NULL
           /\ o.direction = "BUY"
           /\ bars[o.symbol].high > Val(o.stop_price)
           /\ bars[o.symbol].low < Val(o.stop_price)
           /\ now = MaxTime

\* ---------------------------------------------------------------- C16
\* C16: with several open orders of a symbol in the ledger, a market order for
\* the symbol closes the first of them in ledger order and leaves every other
\* order, the other open orders of the symbol included, unchanged.
C16_ClosesFirstOpen ==
    (Executed({"MKT"}) /\ Cardinality(OpenOrders(last.pre, last.event.symbol)) >= 2) =>
        LET first == FirstOpen(last.pre, last.event.symbol)
        IN /\ Len(all_orders) = Len(last.pre)
           /\ Closed(all_orders[first])
           /\ all_orders[first].exit_price = Some(bars[last.event.symbol].close)
           /\ \A i \in 1..Len(last.pre) :
                 i # first => all_orders[i] = last.pre[i]

\* two limit orders of one symbol, both entered, the first closed by a market
\* order and the second left open
C16_Witness ==
    /\ Executed({"MKT"})
    /\ Len(last.pre) >= 2
    /\ last.pre[1].symbol = last.event.symbol /\ Open(last.pre[1])
    /\ last.pre[2].symbol = last.event.symbol /\ Open(last.pre[2])
    /\ last.pre[1].order_type = "LMT" /\ last.pre[2].order_type = "LMT"
    /\ Closed(all_orders[1]) /\ Open(all_orders[2])

\* ---------------------------------------------------------------- C17
OnlyMarketOrders == \A i \in 1..Len(all_orders) : all_orders[i].order_type = "MKT"

\* C17: while only market orders have been submitted (the ledger, which keeps
\* every order submitted, holds market orders only), the ledger holds at most
\* one open order of each symbol.
C17_OneOpenPerSymbol ==
    OnlyMarketOrders =>
        \A sym \in Symbols : Cardinality(OpenOrders(all_orders, sym)) <= 1

\* a second market order on a symbol whose market order is open: it closes
\* that order and opens none
C17_Witness ==
    /\ OnlyMarketOrders
    /\ Executed({"MKT"})
    /\ Len(last.pre) = 1 /\ Open(last.pre[1])
    /\ last.pre[1].symbol = last.event.symbol
    /\ last.pre[1].direction = last.event.direction
    /\ OpenOrders(all_orders, last.event.symbol) = {}

\* the second half of C17: with limit orders submitted the ledger can hold two
\* open orders of one symbol (a state the handler reaches)
TwoOpenOrders ==
    \E sym \in Symbols : Cardinality(OpenOrders(all_orders, sym)) >= 2

\* ---------------------------------------------------------------- C18
\* C18: entry fields are written once: a call that starts with an order
\* entered leaves its entry_price and entry_time as they were; and a scan
\* enters a pending limit or stop order exactly when the bar satisfies its
\* trigger, with that bar's timestamp as entry_time, so that the order is
\* entered at the first scan after its submission whose bar satisfies it.
C18_EntryWrittenOnce ==
    /\ last.op \in {"scan", "execute"} =>
          \A i \in 1..Len(last.pre) :
              last.pre[i].entry_price # NULL =>
                  /\ all_orders[i].entry_price = last.pre[i].entry_price
                  /\ all_orders[i].entry_time = last.pre[i].entry_time
    /\ Scanned =>
          \A i \in 1..Len(last.pre) :
              Pending(last.pre[i]) =>
                  IF EntryHit(last.pre[i])
                  THEN /\ all_orders[i].entry_time = Some(now)
                       /\ all_orders[i].entry_price # NULL
                  ELSE Pending(all_orders[i])
    /\ Executed({"MKT", "LMT", "STP"}) =>
          \A i \in 1..Len(last.pre) :
              Pending(last.pre[i]) => Pending(all_orders[i])

\* a scan at the second bar over a limit order entered at the first bar, the
\* second bar satisfying its trigger again
C18_Witness ==
    /\ Scanned /\ now = 1
    /\ \E i \in 1..Len(last.pre) :
        LET o == last.pre[i]
        IN /\ o.order_type = "LMT" /\ Open(o) /\ o.entry_time = Some(0)
           /\ LimitHit(o)
           /\ Open(all_orders[i])

\* ---------------------------------------------------------------- C19
\* C19: scan_open_orders with an empty symbol_list returns an empty batch,
\* raises nothing and leaves the ledger and the queue unchanged.
C19_EmptySymbolList ==
    (last.op = "scan" /\ symbol_list = << >>) =>
        /\ ~last.raised
        /\ last.ret = << >>
        /\ all_orders = last.pre
        /\ events = last.pre_events

====
